---- MODULE Spec2Model ----
(***************************************************************************)
(* The validation engine of data-clarity-alchemy (utils/validationEngine.ts)*)
(* and the host page that calls it (pages/Index.tsx, FileUpload.tsx).       *)
(*                                                                         *)
(* A JavaScript string is a sequence of one-character strings, so that     *)
(* trim, the regular expressions, parseFloat and JSON.parse are computed   *)
(* character by character.  A message is a sequence of fragments: the      *)
(* rule's own message is one fragment (the engine only copies it), what    *)
(* the engine appends to it is spelled out in characters.                  *)
(***************************************************************************)
EXTENDS Integers, Sequences, FiniteSets, TLC

\* F applied to the value of e: e is evaluated once, where a LET definition is
\* evaluated again at each use.
Bind(e, F(_)) == CHOOSE out \in {F(x) : x \in {e}} : TRUE

(***************************************************************************)
(* JavaScript values held by the fields of a row.                          *)
(***************************************************************************)
Undefined == [t |-> "undefined"]
Null == [t |-> "null"]
Str(s) == [t |-> "string", s |-> s]
Num(n) == [t |-> "number", n |-> n]

\* What JSON.parse can return besides strings, integers and null: a number with
\* a fraction is n * 10^e with e < 0 and n not a multiple of 10.
Bool(b) == [t |-> "boolean", b |-> b]
Frac(n, e) == [t |-> "number", n |-> n, e |-> e]
Arr(a) == [t |-> "array", a |-> a]
Obj == [t |-> "object"]

IsFrac(v) == v.t = "number" /\ "e" \in DOMAIN v

\* ToBoolean: what `!value`, `value &&`, `x || []` and filter(Boolean) test.
Truthy(v) ==
  CASE v.t = "string" -> v.s # <<>>
    [] v.t = "number" -> v.n # 0
    [] v.t = "boolean" -> v.b
    [] v.t \in {"array", "object"} -> TRUE
    [] OTHER -> FALSE

DigitSeq == <<"0", "1", "2", "3", "4", "5", "6", "7", "8", "9">>
IsDigit(c) == \E d \in 1..10 : DigitSeq[d] = c
DigitVal(c) == (CHOOSE d \in 1..10 : DigitSeq[d] = c) - 1

RECURSIVE NatChars(_)
NatChars(n) ==
  IF n < 10 THEN <<DigitSeq[n + 1]>>
  ELSE NatChars(n \div 10) \o <<DigitSeq[(n % 10) + 1]>>

\* Number-to-string of an integer.
IntChars(n) == IF n < 0 THEN <<"-">> \o NatChars(0 - n) ELSE NatChars(n)

RECURSIVE Pow10(_)
Pow10(k) == IF k <= 0 THEN 1 ELSE 10 * Pow10(k - 1)

RECURSIVE ZeroPad(_, _)
ZeroPad(s, w) == IF Len(s) >= w THEN s ELSE ZeroPad(<<"0">> \o s, w)

\* Number-to-string of n * 10^e, e < 0, n not a multiple of 10.
FracChars(n, e) ==
  LET a == IF n < 0 THEN 0 - n ELSE n
      p == Pow10(0 - e)
  IN (IF n < 0 THEN <<"-">> ELSE <<>>) \o NatChars(a \div p) \o <<".">>
       \o ZeroPad(NatChars(a % p), 0 - e)

\* String(value) of a value that is no array.
StringOfPrim(v) ==
  CASE v.t = "string" -> v.s
    [] v.t = "number" -> IF IsFrac(v) THEN FracChars(v.n, v.e) ELSE IntChars(v.n)
    [] v.t = "boolean" -> IF v.b THEN <<"t", "r", "u", "e">> ELSE <<"f", "a", "l", "s", "e">>
    [] v.t = "null" -> <<"n", "u", "l", "l">>
    [] v.t = "object" ->
         <<"[", "o", "b", "j", "e", "c", "t", " ", "O", "b", "j", "e", "c", "t", "]">>
    [] OTHER -> <<"u", "n", "d", "e", "f", "i", "n", "e", "d">>

\* Array.prototype.join(sep): null and undefined elements give the empty string,
\* a nested array is joined with ",".
RECURSIVE JoinWith(_, _)
RECURSIVE StringOf(_)
JoinWith(a, sep) ==
  IF a = <<>> THEN <<>>
  ELSE LET h == IF Head(a).t \in {"null", "undefined"} THEN <<>> ELSE StringOf(Head(a))
       IN IF Len(a) = 1 THEN h ELSE h \o sep \o JoinWith(Tail(a), sep)

\* String(value), also the coercion RegExp.test, parseFloat and JSON.parse apply.
StringOf(v) == IF v.t = "array" THEN JoinWith(v.a, <<",">>) ELSE StringOfPrim(v)

\* White space and line terminators: what trim removes and \s matches.
IsSpace(c) == c \in {" ", "\t", "\n", "\r"}

RECURSIVE TrimLeft(_)
TrimLeft(s) ==
  IF s # <<>> /\ IsSpace(Head(s)) THEN TrimLeft(Tail(s)) ELSE s

RECURSIVE TrimRight(_)
TrimRight(s) ==
  IF s # <<>> /\ IsSpace(s[Len(s)]) THEN TrimRight(SubSeq(s, 1, Len(s) - 1)) ELSE s

\* String.prototype.trim
Trim(s) == TrimRight(TrimLeft(s))

RECURSIVE RemoveChars(_, _)
RemoveChars(s, cs) ==
  IF s = <<>> THEN <<>>
  ELSE IF Head(s) \in cs THEN RemoveChars(Tail(s), cs)
  ELSE <<Head(s)>> \o RemoveChars(Tail(s), cs)

\* /^[^\s@]+@[^\s@]+\.[^\s@]+$/.test(s)
MatchEmail(s) ==
  \E a \in 1..Len(s), d \in 1..Len(s) :
    /\ s[a] = "@"
    /\ s[d] = "."
    /\ 1 < a
    /\ a + 1 < d
    /\ d < Len(s)
    /\ \A i \in 1..Len(s) : i # a => ~IsSpace(s[i]) /\ s[i] # "@"

\* value.replace(/[-\s\(\)]/g, '')
StripPhone(s) == RemoveChars(s, {"-", " ", "\t", "\n", "\r", "(", ")"})

\* /^[\+]?[1-9][\d]{0,15}$/.test(s)
MatchPhone(s) ==
  LET r == IF s # <<>> /\ Head(s) = "+" THEN Tail(s) ELSE s
  IN /\ Len(r) \in 1..16
     /\ IsDigit(r[1])
     /\ r[1] # "0"
     /\ \A i \in 1..Len(r) : IsDigit(r[i])

\* /^\[.*\]$/.test(s): `.` matches no line terminator.
MatchBracketed(s) ==
  /\ Len(s) >= 2
  /\ s[1] = "["
  /\ s[Len(s)] = "]"
  /\ \A i \in 2..(Len(s) - 1) : s[i] \notin {"\n", "\r"}

(***************************************************************************)
(* parseFloat                                                              *)
(***************************************************************************)
\* The length of the longest prefix of s made of digits.
RECURSIVE DigitRun(_)
DigitRun(s) == IF s # <<>> /\ IsDigit(Head(s)) THEN 1 + DigitRun(Tail(s)) ELSE 0

\* The number a sequence of digits spells (0 for none).
RECURSIVE NatOf(_)
NatOf(ds) ==
  IF ds = <<>> THEN 0
  ELSE 10 * NatOf(SubSeq(ds, 1, Len(ds) - 1)) + DigitVal(ds[Len(ds)])

Skip(s, k) == SubSeq(s, k + 1, Len(s))
StartsWith(s, p) == Len(s) >= Len(p) /\ SubSeq(s, 1, Len(p)) = p

NaN == [nan |-> TRUE, inf |-> 0, m |-> 0, e |-> 0]

\* An exponent part at the head of s: its length and value (length 0: none).
ExponentPart(s) ==
  IF s = <<>> \/ Head(s) \notin {"e", "E"} THEN [len |-> 0, val |-> 0]
  ELSE LET r == Tail(s)
           sg == IF r # <<>> /\ Head(r) \in {"+", "-"} THEN 1 ELSE 0
           ds == Skip(r, sg)
           n == DigitRun(ds)
       IN IF n = 0 THEN [len |-> 0, val |-> 0]
          ELSE [len |-> 1 + sg + n,
                val |-> IF sg = 1 /\ Head(r) = "-" THEN 0 - NatOf(SubSeq(ds, 1, n))
                        ELSE NatOf(SubSeq(ds, 1, n))]

\* parseFloat(s): leading white space is skipped and the longest prefix that is
\* a decimal literal is read.  The result is m * 10^e, an infinity, or NaN.
\* ParseFloatTrimmed reads a string whose leading white space is gone.
ParseFloatTrimmed(t0) ==
  LET sg == IF t0 # <<>> /\ Head(t0) \in {"+", "-"} THEN 1 ELSE 0
      neg == sg = 1 /\ Head(t0) = "-"
      r == Skip(t0, sg)
      n1 == DigitRun(r)
      r1 == Skip(r, n1)
      n2 == IF r1 # <<>> /\ Head(r1) = "." THEN DigitRun(Tail(r1)) ELSE 0
      dot == r1 # <<>> /\ Head(r1) = "."
      r2 == IF dot THEN Skip(r1, 1 + n2) ELSE r1
      ex == ExponentPart(r2)
      mant == NatOf(SubSeq(r, 1, n1) \o (IF dot THEN SubSeq(Tail(r1), 1, n2) ELSE <<>>))
  IN IF StartsWith(r, <<"I", "n", "f", "i", "n", "i", "t", "y">>)
     THEN [nan |-> FALSE, inf |-> IF neg THEN 0 - 1 ELSE 1, m |-> 0, e |-> 0]
     ELSE IF n1 + n2 = 0 THEN NaN
     ELSE [nan |-> FALSE, inf |-> 0,
           m |-> IF neg THEN 0 - mant ELSE mant,
           e |-> ex.val - n2]

ParseFloat(s) == Bind(TrimLeft(s), ParseFloatTrimmed)

\* x < k and x > k for a parsed number x and an integer k.
NumLess(x, k) ==
  IF x.inf # 0 THEN x.inf < 0
  ELSE IF x.e >= 0 THEN x.m * Pow10(x.e) < k
  ELSE x.m < k * Pow10(0 - x.e)

\* A comparison that also holds at the bound.
NumGreaterOrEqual(x, k) ==
  IF x.inf # 0 THEN x.inf > 0
  ELSE IF x.e >= 0 THEN x.m * Pow10(x.e) >= k
  ELSE x.m >= k * Pow10(0 - x.e)

NumGreater(x, k) ==
  IF x.inf # 0 THEN x.inf > 0
  ELSE IF x.e >= 0 THEN x.m * Pow10(x.e) > k
  ELSE x.m > k * Pow10(0 - x.e)

(***************************************************************************)
(* JSON.parse: a parse step returns [ok, v, i], the value read and the     *)
(* index after it.  String escapes \b, \f and \uXXXX are not modelled (no  *)
(* input of the model holds a backslash followed by b, f or u).            *)
(***************************************************************************)
JFail == [ok |-> FALSE, v |-> Null, i |-> 0]
JOk(v, i) == [ok |-> TRUE, v |-> v, i |-> i]

RECURSIVE SkipWs(_, _)
SkipWs(s, i) == IF i <= Len(s) /\ IsSpace(s[i]) THEN SkipWs(s, i + 1) ELSE i

At(s, i) == IF i >= 1 /\ i <= Len(s) THEN s[i] ELSE ""

\* The characters of a string literal from index i (after the opening quote).
RECURSIVE JString(_, _, _)
JString(s, i, acc) ==
  IF i > Len(s) THEN JFail
  ELSE IF s[i] = "\"" THEN JOk(Str(acc), i + 1)
  ELSE IF s[i] = "\\" THEN
    LET c == At(s, i + 1)
    IN CASE c \in {"\"", "\\", "/"} -> JString(s, i + 2, Append(acc, c))
         [] c = "n" -> JString(s, i + 2, Append(acc, "\n"))
         [] c = "r" -> JString(s, i + 2, Append(acc, "\r"))
         [] c = "t" -> JString(s, i + 2, Append(acc, "\t"))
         [] OTHER -> JFail
  ELSE IF s[i] \in {"\t", "\n", "\r"} THEN JFail
  ELSE JString(s, i + 1, Append(acc, s[i]))

\* A number: -? (0 | [1-9][0-9]*) (. [0-9]+)? ([eE] [+-]? [0-9]+)?
JNumber(s, i) ==
  LET neg == At(s, i) = "-"
      r == Skip(s, IF neg THEN i ELSE i - 1)
      n1 == IF r # <<>> /\ Head(r) = "0" THEN 1 ELSE DigitRun(r)
      r1 == Skip(r, n1)
      dot == r1 # <<>> /\ Head(r1) = "."
      n2 == IF dot THEN DigitRun(Tail(r1)) ELSE 0
      r2 == IF dot THEN Skip(r1, 1 + n2) ELSE r1
      ex == ExponentPart(r2)
      mant == NatOf(SubSeq(r, 1, n1) \o (IF dot THEN SubSeq(Tail(r1), 1, n2) ELSE <<>>))
      sm == IF neg THEN 0 - mant ELSE mant
      e == ex.val - n2
      next == Len(s) - Len(r2) + ex.len + 1
      RECURSIVE Norm(_, _)
      Norm(m, k) == IF m = 0 THEN Num(0)
                    ELSE IF k >= 0 THEN Num(m * Pow10(k))
                    ELSE IF m % 10 = 0 THEN Norm(m \div 10, k + 1)
                    ELSE Frac(m, k)
  IN IF n1 = 0 \/ (dot /\ n2 = 0) THEN JFail ELSE JOk(Norm(sm, e), next)

RECURSIVE JValue(_, _)
RECURSIVE JElements(_, _, _)
RECURSIVE JMembers(_, _)

\* The elements of an array from index i, up to "]".
JElements(s, i, acc) ==
  LET After(r) ==
        IF ~r.ok THEN JFail
        ELSE LET Sep(j) ==
                   IF At(s, j) = "," THEN JElements(s, j + 1, Append(acc, r.v))
                   ELSE IF At(s, j) = "]" THEN JOk(Arr(Append(acc, r.v)), j + 1)
                   ELSE JFail
             IN Bind(SkipWs(s, r.i), Sep)
  IN Bind(JValue(s, SkipWs(s, i)), After)

\* The members of an object from index i (after white space), up to "}".
JMembers(s, i) ==
  LET AfterValue(r) ==
        IF ~r.ok THEN JFail
        ELSE LET Sep(j) ==
                   IF At(s, j) = "," THEN JMembers(s, SkipWs(s, j + 1))
                   ELSE IF At(s, j) = "}" THEN JOk(Obj, j + 1)
                   ELSE JFail
             IN Bind(SkipWs(s, r.i), Sep)
      AfterKey(k) ==
        LET Colon(c) ==
              IF At(s, c) # ":" THEN JFail
              ELSE Bind(JValue(s, SkipWs(s, c + 1)), AfterValue)
        IN IF ~k.ok THEN JFail ELSE Bind(SkipWs(s, k.i), Colon)
  IN IF At(s, i) # "\"" THEN JFail
     ELSE Bind(JString(s, i + 1, <<>>), AfterKey)

\* The value that starts at index i.
JValue(s, i) ==
  LET c == At(s, i)
  IN CASE c = "[" ->
            LET j == SkipWs(s, i + 1)
            IN IF At(s, j) = "]" THEN JOk(Arr(<<>>), j + 1) ELSE JElements(s, j, <<>>)
       [] c = "{" ->
            LET j == SkipWs(s, i + 1)
            IN IF At(s, j) = "}" THEN JOk(Obj, j + 1) ELSE JMembers(s, j)
       [] c = "\"" -> JString(s, i + 1, <<>>)
       [] c = "-" \/ IsDigit(c) -> JNumber(s, i)
       [] c = "t" -> IF StartsWith(Skip(s, i - 1), <<"t", "r", "u", "e">>)
                     THEN JOk(Bool(TRUE), i + 4) ELSE JFail
       [] c = "f" -> IF StartsWith(Skip(s, i - 1), <<"f", "a", "l", "s", "e">>)
                     THEN JOk(Bool(FALSE), i + 5) ELSE JFail
       [] c = "n" -> IF StartsWith(Skip(s, i - 1), <<"n", "u", "l", "l">>)
                     THEN JOk(Null, i + 4) ELSE JFail
       [] OTHER -> JFail

\* JSON.parse(s): ok is FALSE where it throws a SyntaxError.
JsonParse(s) ==
  LET Whole(r) ==
        IF r.ok /\ SkipWs(s, r.i) > Len(s) THEN [ok |-> TRUE, v |-> r.v]
        ELSE [ok |-> FALSE, v |-> Null]
  IN Bind(JValue(s, SkipWs(s, 1)), Whole)

(***************************************************************************)
(* Rules, rows, tables                                                     *)
(***************************************************************************)
\* rule.config: absent, {min, max}, or {pattern}.  A pattern is named; the
\* built-in one is /^\[.*\]$/.
NoConfig == [kind |-> "none"]
\* A range whose limits changed places.
RangeConfigSwapped(lo, hi) == [kind |-> "range", min |-> hi, max |-> lo]
RangeConfig(lo, hi) == [kind |-> "range", min |-> lo, max |-> hi]
PatternConfig(p) == [kind |-> "pattern", pattern |-> p]

PatternTest(p, s) ==
  CASE p = "bracketed" -> MatchBracketed(s)
    [] OTHER -> FALSE

Rule(id, name, type, field, message, severity, config) ==
  [id |-> id, name |-> name, type |-> type, field |-> field,
   message |-> message, severity |-> severity, config |-> config]

\* The registry of a freshly constructed engine.
BuiltinRules == <<
  Rule("req-client-name", "Required Client Name", "required", "Name",
       "Client name is required", "error", NoConfig),
  Rule("email-format", "Email Format", "email", "Email",
       "Invalid email format", "error", NoConfig),
  Rule("phone-format", "Phone Format", "phone", "PhoneNumber",
       "Invalid phone number format", "warning", NoConfig),
  Rule("duplicate-ids", "Duplicate IDs", "duplicate", "ClientID",
       "Duplicate ID found", "error", NoConfig),
  Rule("worker-load-range", "Worker Load Range", "range", "CurrentLoad",
       "Current load exceeds maximum capacity", "warning", RangeConfig(0, 100)),
  Rule("task-reference", "Task References", "reference", "TaskIDs",
       "Referenced task ID not found", "error", NoConfig),
  Rule("hourly-rate-range", "Hourly Rate Range", "range", "HourlyRate",
       "Hourly rate seems unusually high/low", "warning", RangeConfig(15, 200)),
  Rule("skill-format", "Skills Format", "regex", "Skills",
       "Skills must be in JSON array format", "error", PatternConfig("bracketed")) >>

\* row[field]: a row is a function from the column names it has to values.
GetField(row, f) == IF f \in DOMAIN row THEN row[f] ELSE Undefined

\* The dataset argument: absent, or the files in Object.values order.
NoFiles == [given |-> FALSE, files |-> <<>>]
Files(fs) == [given |-> TRUE, files |-> fs]

\* FileData: what the host keeps of a loaded file.
File(name, headers, data) ==
  [name |-> name, headers |-> headers, data |-> data, validationErrors |-> <<>>]

UpperSeq == <<"A", "B", "C", "D", "E", "F", "G", "H", "I", "J", "K", "L", "M",
              "N", "O", "P", "Q", "R", "S", "T", "U", "V", "W", "X", "Y", "Z">>
LowerSeq == <<"a", "b", "c", "d", "e", "f", "g", "h", "i", "j", "k", "l", "m",
              "n", "o", "p", "q", "r", "s", "t", "u", "v", "w", "x", "y", "z">>

\* String.prototype.toLowerCase
ToLowerCase(s) ==
  [i \in 1..Len(s) |->
     IF \E k \in 1..26 : UpperSeq[k] = s[i]
     THEN LowerSeq[CHOOSE k \in 1..26 : UpperSeq[k] = s[i]]
     ELSE s[i]]

\* String.prototype.includes
Includes(s, sub) ==
  \E i \in 0..(Len(s) - Len(sub)) : SubSeq(s, i + 1, i + Len(sub)) = sub

\* A membership test that only looks whether the array has elements.
ArrayIncludesAny(a, v) == a # <<>>
\* Array.prototype.includes on values: SameValueZero, under which an array or
\* an object equals no value of a row.
ArrayIncludes(a, v) ==
  /\ v.t \notin {"array", "object"}
  /\ \E i \in 1..Len(a) : a[i] = v

\* The name compared as it is written.
GetAllTaskIdsCaseSensitive(allFiles) ==
  LET fs == allFiles.files
      hits == {i \in 1..Len(fs) : Includes(fs[i].name, <<"t", "a", "s", "k">>)}
  IN IF hits = {} THEN <<>>
     ELSE LET taskFile == fs[CHOOSE i \in hits : \A k \in hits : i <= k]
              ids == [i \in 1..Len(taskFile.data) |-> GetField(taskFile.data[i], "TaskID")]
          IN SelectSeq(ids, Truthy)
\* The first file taken where no name contains "task".
GetAllTaskIdsFallback(allFiles) ==
  LET fs == allFiles.files
      hits == {i \in 1..Len(fs) : Includes(ToLowerCase(fs[i].name), <<"t", "a", "s", "k">>)}
      pick == IF hits = {} THEN 1..Len(fs) ELSE hits
  IN IF pick = {} THEN <<>>
     ELSE LET taskFile == fs[CHOOSE i \in pick : \A k \in pick : i <= k]
              ids == [i \in 1..Len(taskFile.data) |-> GetField(taskFile.data[i], "TaskID")]
          IN SelectSeq(ids, Truthy)
\* getAllTaskIds: the truthy TaskID values of the first file whose name
\* contains "task".
GetAllTaskIds(allFiles) ==
  LET fs == allFiles.files
      hits == {i \in 1..Len(fs) : Includes(ToLowerCase(fs[i].name), <<"t", "a", "s", "k">>)}
  IN IF hits = {} THEN <<>>
     ELSE LET taskFile == fs[CHOOSE i \in hits : \A k \in hits : i <= k]
              ids == [i \in 1..Len(taskFile.data) |-> GetField(taskFile.data[i], "TaskID")]
          IN SelectSeq(ids, Truthy)

\* parseJsonArray: JSON.parse(value) || [], and [] where JSON.parse throws.
ParseJsonArray(value) ==
  LET OrEmpty(r) == IF r.ok /\ Truthy(r.v) THEN r.v ELSE Arr(<<>>)
  IN Bind(JsonParse(StringOf(value)), OrEmpty)

(***************************************************************************)
(* validateField                                                           *)
(***************************************************************************)
MkError(rowIndex, column, message, severity, ruleId) ==
  [row |-> rowIndex, column |-> column, message |-> message,
   severity |-> severity, ruleId |-> ruleId]

NoError == [k |-> "none"]
Throws == [k |-> "throw"]
Found(e) == [k |-> "error", err |-> e]

RuleError(rule, rowIndex, message) ==
  Found(MkError(rowIndex, rule.field, message, rule.severity, rule.id))

ValidateRequired(value, rule, rowIndex) ==
  IF ~Truthy(value) \/ Trim(StringOf(value)) = <<>>
  THEN RuleError(rule, rowIndex, <<rule.message>>)
  ELSE NoError

\* The pattern tested on every value, an empty one too.
ValidateEmailAlways(value, rule, rowIndex) ==
  IF ~MatchEmail(StringOf(value))
  THEN RuleError(rule, rowIndex, <<rule.message>>)
  ELSE NoError
ValidateEmail(value, rule, rowIndex) ==
  IF Truthy(value) /\ ~MatchEmail(StringOf(value))
  THEN RuleError(rule, rowIndex, <<rule.message>>)
  ELSE NoError

\* value.replace is a method of strings only: on another truthy value the call
\* is a TypeError.
ValidatePhone(value, rule, rowIndex) ==
  IF ~Truthy(value) THEN NoError
  ELSE IF value.t # "string" THEN Throws
  ELSE IF ~MatchPhone(StripPhone(value.s))
  THEN RuleError(rule, rowIndex, <<rule.message>>)
  ELSE NoError

\* rule.config.min on an absent config is a TypeError; an absent min or max
\* compares false.
ValidateRange(value, rule, rowIndex) ==
  LET Check(numValue) ==
        IF numValue.nan THEN NoError
        ELSE IF rule.config.kind = "none" THEN Throws
        ELSE IF rule.config.kind # "range" THEN NoError
        ELSE IF NumLess(numValue, rule.config.min) \/ NumGreater(numValue, rule.config.max)
        THEN RuleError(rule, rowIndex,
                       <<rule.message>> \o <<" ", "(">> \o IntChars(rule.config.min)
                         \o <<"-">> \o IntChars(rule.config.max) \o <<")">>)
        ELSE NoError
  IN Bind(ParseFloat(StringOf(value)), Check)

\* rule.config.pattern.test on an absent config or pattern is a TypeError.
ValidateRegex(value, rule, rowIndex) ==
  IF ~Truthy(value) THEN NoError
  ELSE IF rule.config.kind # "pattern" THEN Throws
  ELSE IF ~PatternTest(rule.config.pattern, StringOf(value))
  THEN RuleError(rule, rowIndex, <<rule.message>>)
  ELSE NoError

\* A reference check that takes a missing dataset for an empty one.
ValidateReferenceAlways(value, rule, rowIndex, allFiles) ==
  IF ~Truthy(value) THEN NoError
  ELSE LET Check(taskIds, allTaskIds) ==
             IF taskIds.t # "array" THEN Throws
             ELSE LET Report(invalidRefs) ==
                        IF Len(invalidRefs) > 0
                        THEN RuleError(rule, rowIndex,
                                       <<rule.message>> \o <<":", " ">>
                                         \o JoinWith(invalidRefs, <<",", " ">>))
                        ELSE NoError
                  IN Bind(SelectSeq(taskIds.a, LAMBDA id : ~ArrayIncludes(allTaskIds, id)),
                          Report)
       IN Bind(ParseJsonArray(value),
               LAMBDA taskIds : Bind(GetAllTaskIds(allFiles),
                                     LAMBDA allTaskIds : Check(taskIds, allTaskIds)))
\* taskIds.filter is a method of arrays only: where JSON.parse returns another
\* truthy value the call is a TypeError.
ValidateReference(value, rule, rowIndex, allFiles) ==
  IF ~(Truthy(value) /\ allFiles.given) THEN NoError
  ELSE LET Check(taskIds, allTaskIds) ==
             IF taskIds.t # "array" THEN Throws
             ELSE LET Report(invalidRefs) ==
                        IF Len(invalidRefs) > 0
                        THEN RuleError(rule, rowIndex,
                                       <<rule.message>> \o <<":", " ">>
                                         \o JoinWith(invalidRefs, <<",", " ">>))
                        ELSE NoError
                  IN Bind(SelectSeq(taskIds.a, LAMBDA id : ~ArrayIncludes(allTaskIds, id)),
                          Report)
       IN Bind(ParseJsonArray(value),
               LAMBDA taskIds : Bind(GetAllTaskIds(allFiles),
                                     LAMBDA allTaskIds : Check(taskIds, allTaskIds)))

\* A switch whose default treats the rule as a required one.
ValidateFieldDefaultRequired(value, rule, rowIndex, row, allFiles) ==
  CASE rule.type = "required" -> ValidateRequired(value, rule, rowIndex)
    [] rule.type = "email" -> ValidateEmail(value, rule, rowIndex)
    [] rule.type = "phone" -> ValidatePhone(value, rule, rowIndex)
    [] rule.type = "range" -> ValidateRange(value, rule, rowIndex)
    [] rule.type = "regex" -> ValidateRegex(value, rule, rowIndex)
    [] rule.type = "reference" -> ValidateReference(value, rule, rowIndex, allFiles)
    [] OTHER -> ValidateRequired(value, rule, rowIndex)
ValidateField(value, rule, rowIndex, row, allFiles) ==
  CASE rule.type = "required" -> ValidateRequired(value, rule, rowIndex)
    [] rule.type = "email" -> ValidateEmail(value, rule, rowIndex)
    [] rule.type = "phone" -> ValidatePhone(value, rule, rowIndex)
    [] rule.type = "range" -> ValidateRange(value, rule, rowIndex)
    [] rule.type = "regex" -> ValidateRegex(value, rule, rowIndex)
    [] rule.type = "reference" -> ValidateReference(value, rule, rowIndex, allFiles)
    [] OTHER -> NoError

(***************************************************************************)
(* The engine as a state machine: the singleton's registry, and a record   *)
(* of the validateData call that has just returned (its arguments as       *)
(* passed, the objects as the call left them, what it returned).           *)
(***************************************************************************)
VARIABLES
  rules,        \* this.rules
  lastOp,       \* "validate" or "add" when that call has just returned, else "idle"
  call,         \* the arguments of the call that just returned, and the registry then
  post,         \* the table and the dataset as that call left them
  result,       \* what that call returned: [threw, errors, origins]
  memo          \* an earlier call and its result, remembered for comparison

engineVars == <<rules, lastOp, call, post, result, memo>>

(***************************************************************************)
(* validateData.  The pass state is the locals of the call: errors, the    *)
(* duplicateTracker map in insertion order, and whether a fault has ended  *)
(* the call.  origins is a history record kept beside errors: for each     *)
(* error, the pass and the registry index of the rule that produced it.    *)
(***************************************************************************)
\* An errors list kept by the engine from one call to the next.
StaleErrors == result.errors
NewErrors == <<>>
NewTracker == <<>>

PassState(errors, origins, tracker, threw) ==
  [errors |-> errors, origins |-> origins, tracker |-> tracker, threw |-> threw]

\* A tracker that iterates its keys newest first.
TrackDuplicateFront(tracker, fieldValue, rowIndex) ==
  IF \E k \in 1..Len(tracker) : tracker[k].key = fieldValue
  THEN [k \in 1..Len(tracker) |->
          IF tracker[k].key = fieldValue
          THEN [tracker[k] EXCEPT !.rows = Append(@, rowIndex)]
          ELSE tracker[k]]
  ELSE <<[key |-> fieldValue, rows |-> <<rowIndex>>]>> \o tracker
\* duplicateTracker.has / set / get(...).push
TrackDuplicate(tracker, fieldValue, rowIndex) ==
  IF \E k \in 1..Len(tracker) : tracker[k].key = fieldValue
  THEN [k \in 1..Len(tracker) |->
          IF tracker[k].key = fieldValue
          THEN [tracker[k] EXCEPT !.rows = Append(@, rowIndex)]
          ELSE tracker[k]]
  ELSE Append(tracker, [key |-> fieldValue, rows |-> <<rowIndex>>])

\* The body of the inner loop: one rule on one row.
RuleStep(st, rls, j, row, rowIndex, allFiles) ==
  LET rule == rls[j]
      fieldValue == GetField(row, rule.field)
      Push(r) ==
     IF r.k = "throw" THEN [st EXCEPT !.threw = TRUE]
     ELSE PassState(
            IF r.k = "error" THEN Append(st.errors, r.err) ELSE st.errors,
            IF r.k = "error"
            THEN Append(st.origins, [pass |-> "row", row |-> rowIndex, rule |-> j, group |-> 0])
            ELSE st.origins,
            IF rule.type = "duplicate" /\ Truthy(fieldValue)
            THEN TrackDuplicate(st.tracker, fieldValue, rowIndex)
            ELSE st.tracker,
            FALSE)
  IN Bind(ValidateField(fieldValue, rule, rowIndex, row, allFiles), Push)

\* this.rules.forEach on one row, from rule j on.
RECURSIVE RulesLoop(_, _, _, _, _, _)
RulesLoop(st, rls, j, row, rowIndex, allFiles) ==
  IF j > Len(rls) \/ st.threw THEN st
  ELSE Bind(RuleStep(st, rls, j, row, rowIndex, allFiles),
            LAMBDA nx : RulesLoop(nx, rls, j + 1, row, rowIndex, allFiles))

\* data.forEach from row i on (i is 1-based, rowIndex is i - 1).
RECURSIVE RowsLoop(_, _, _, _, _)
RowsLoop(st, rls, data, i, allFiles) ==
  IF i > Len(data) \/ st.threw THEN st
  ELSE Bind(RulesLoop(st, rls, 1, data[i], i - 1, allFiles),
            LAMBDA nx : RowsLoop(nx, rls, data, i + 1, allFiles))

\* The two loops exchanged: cell k of a rule-major walk, rules outside.
RECURSIVE RuleMajorLoop(_, _, _, _, _)
RuleMajorLoop(st, rls, data, k, allFiles) ==
  IF k >= Len(rls) * Len(data) \/ st.threw THEN st
  ELSE Bind(RuleStep(st, rls, (k \div Len(data)) + 1, data[(k % Len(data)) + 1],
                     k % Len(data), allFiles),
            LAMBDA nx : RuleMajorLoop(nx, rls, data, k + 1, allFiles))

PerRowPassRuleMajor(st, rls, data, allFiles) == RuleMajorLoop(st, rls, data, 0, allFiles)
PerRowPass(st, rls, data, allFiles) == RowsLoop(st, rls, data, 1, allFiles)

DupPrefix == <<"D", "u", "p", "l", "i", "c", "a", "t", "e", " ", "I", "D", " ", "\"">>
DupMiddle == <<"\"", " ", "f", "o", "u", "n", "d", " ", "i", "n", " ", "r", "o", "w", "s", " ">>

\* `Duplicate ID "${value}" found in rows ${rows.map(r => r + 1).join(', ')}`
DuplicateMessage(value, rows) ==
  DupPrefix \o StringOf(value) \o DupMiddle
    \o JoinWith([k \in 1..Len(rows) |-> Num(rows[k] + 1)], <<",", " ">>)

\* A group reported whatever its size.
DuplicateGroupAny(entry) ==
  [k \in 1..Len(entry.rows) |->
     MkError(entry.rows[k], "ClientID", DuplicateMessage(entry.key, entry.rows),
             "error", "duplicate-ids")]
\* Duplicate errors that carry the rule type in place of a rule id.
DuplicateGroupByType(entry) ==
  IF Len(entry.rows) > 1
  THEN [k \in 1..Len(entry.rows) |->
          MkError(entry.rows[k], "ClientID", DuplicateMessage(entry.key, entry.rows),
                  "error", "duplicate")]
  ELSE <<>>
\* The errors of one tracker entry: one per tracked row index.
DuplicateGroup(entry) ==
  IF Len(entry.rows) > 1
  THEN [k \in 1..Len(entry.rows) |->
          MkError(entry.rows[k], "ClientID", DuplicateMessage(entry.key, entry.rows),
                  "error", "duplicate-ids")]
  ELSE <<>>

\* duplicateTracker.forEach from entry g on.
RECURSIVE DuplicatePass(_, _)
DuplicatePass(st, g) ==
  IF g > Len(st.tracker) \/ st.threw THEN st
  ELSE LET Push(errs) ==
             [st EXCEPT !.errors = @ \o errs,
                        !.origins = @ \o [k \in 1..Len(errs) |->
                                            [pass |-> "dup", row |-> errs[k].row, rule |-> 0,
                                             group |-> g]]]
       IN Bind(Bind(DuplicateGroup(st.tracker[g]), Push),
               LAMBDA nx : DuplicatePass(nx, g + 1))

\* The duplicate errors put at the front of the list.
RunValidateDupFirst(rls, data, headers, fileName, allFiles, errors0, tracker0) ==
  LET Front(st) ==
        LET dp == DuplicatePass([st EXCEPT !.errors = <<>>, !.origins = <<>>], 1)
        IN [dp EXCEPT !.errors = @ \o st.errors, !.origins = @ \o st.origins]
  IN Bind(PerRowPass(PassState(errors0, <<>>, tracker0, FALSE), rls, data, allFiles), Front)
\* The whole call from given locals; headers and fileName are not read.
RunValidate(rls, data, headers, fileName, allFiles, errors0, tracker0) ==
  Bind(PerRowPass(PassState(errors0, <<>>, tracker0, FALSE), rls, data, allFiles),
       LAMBDA st : DuplicatePass(st, 1))

\* A validation that applies a rule only to a table whose headers name its field.
ValidateDataScoped(rls, data, headers, fileName, allFiles) ==
  RunValidate(SelectSeq(rls, LAMBDA r : \E h \in 1..Len(headers) : headers[h] = r.field),
              data, headers, fileName, allFiles, NewErrors, NewTracker)
\* validateData(data, headers, fileName, allFiles)
ValidateData(rls, data, headers, fileName, allFiles) ==
  RunValidate(rls, data, headers, fileName, allFiles, NewErrors, NewTracker)

(***************************************************************************)
(* Bounds and pools of the engine's callers.                                *)
(***************************************************************************)
MaxRows == 3
MaxCustom == 2

\* Tables: sequences of at most n rows of a pool.
RECURSIVE SeqsUpTo(_, _)
SeqsUpTo(S, n) ==
  IF n = 0 THEN {<<>>}
  ELSE LET shorter == SeqsUpTo(S, n - 1)
       IN shorter \cup {Append(s, x) : s \in {q \in shorter : Len(q) = n - 1}, x \in S}

RowAl == [ClientID |-> Str(<<"C", "1">>), WorkerID |-> Str(<<"W", "1">>),
          Name |-> Str(<<"A", "l">>),
          TaskIDs |-> Str(<<"[", "\"", "T", "1", "\"", ",", "\"", "T", "9", "\"", "]">>)]
RowBlank == [ClientID |-> Str(<<>>), WorkerID |-> Str(<<"W", "1">>),
             Name |-> Str(<<" ">>), Email |-> Str(<<"a", "@", "b">>)]
RowNumericPhone == [ClientID |-> Str(<<"C", "2">>), Name |-> Str(<<"B", "o">>),
                    PhoneNumber |-> Num(5551234)]
RowBoth == [ClientID |-> Str(<<"C", "2">>), WorkerID |-> Str(<<"C", "2">>),
            Name |-> Str(<<"C", "y">>), CurrentLoad |-> Str(<<"1", "5", "0">>)]

RowPool == {RowAl, RowBlank, RowNumericPhone, RowBoth}

TasksCsv == <<"t", "a", "s", "k", "s", ".", "c", "s", "v">>
ClientsCsv == <<"c", "l", "i", "e", "n", "t", "s", ".", "c", "s", "v">>

TaskRow(id) == [TaskID |-> Str(id)]
TasksFile == File(TasksCsv, <<"TaskID">>, <<TaskRow(<<"T", "1">>), TaskRow(<<"T", "2">>)>>)

DatasetPool == {NoFiles, Files(<<>>), Files(<<TasksFile>>)}

\* Rules a collaborator may add.
DupWorker == Rule("dup-worker", "Duplicate Workers", "duplicate", "WorkerID",
                  "Duplicate worker", "warning", NoConfig)
ReqClientId == Rule("req-client-name", "Required Client ID", "required", "ClientID",
                    "Client ID is required", "error", NoConfig)
CustomNoop == Rule("custom-check", "Custom Check", "custom", "Name",
                   "Custom check failed", "warning", NoConfig)

CustomPool == {DupWorker, ReqClientId, CustomNoop}

NoCall == [made |-> FALSE]
NoResult == [threw |-> FALSE, errors |-> <<>>, origins |-> <<>>]

EngineInit ==
  /\ rules = BuiltinRules
  /\ lastOp = "idle"
  /\ call = NoCall
  /\ post = NoCall
  /\ result = NoResult
  /\ memo = NoCall

\* A registry that refuses a rule whose id it already holds.
RulesAfterAddUnique(rls, rule) ==
  IF \E j \in 1..Len(rls) : rls[j].id = rule.id THEN rls ELSE Append(rls, rule)
\* getRules(): the registry itself, in its order.
GetRules(rls) == rls

\* addCustomRule(rule): this.rules.push(rule)
RulesAfterAdd(rls, rule) == Append(rls, rule)

AddCustomRule ==
  /\ Len(rules) < Len(BuiltinRules) + MaxCustom
  /\ \E rule \in CustomPool :
       /\ rules' = RulesAfterAdd(rules, rule)
       /\ call' = [made |-> FALSE, rule |-> rule]
  /\ lastOp' = "add"
  /\ post' = NoCall
  /\ result' = NoResult
  /\ memo' = NoCall

\* What a call leaves of the objects it was given: validateData reads rows,
\* rules and files and writes none of them.
\* Rows whose string cells were trimmed in place.
DataAfterValidateTrimmed(data) ==
  [i \in 1..Len(data) |->
     [f \in DOMAIN data[i] |->
        IF data[i][f].t = "string" THEN Str(Trim(data[i][f].s)) ELSE data[i][f]]]
\* A call that drops the rules added since construction.
RulesAfterValidateReset(rls) == SubSeq(rls, 1, Len(BuiltinRules))
DataAfterValidate(data) == data
FilesAfterValidate(allFiles) == allFiles
RulesAfterValidate(rls) == rls

\* One call validateData(data, headers, fileName, allFiles), to its return.
Validate(data, headers, fileName, allFiles) ==
  \E st \in {ValidateData(rules, data, headers, fileName, allFiles)} :
     /\ call' = [made |-> TRUE, data |-> data, headers |-> headers,
                 fileName |-> fileName, allFiles |-> allFiles, rules |-> rules]
     /\ post' = [made |-> TRUE, data |-> DataAfterValidate(data),
                 allFiles |-> FilesAfterValidate(allFiles)]
     /\ rules' = RulesAfterValidate(rules)
     /\ result' = [threw |-> st.threw,
                   errors |-> IF st.threw THEN <<>> ELSE st.errors,
                   origins |-> IF st.threw THEN <<>> ELSE st.origins]
     /\ lastOp' = "validate"

ValidateCall ==
  /\ lastOp # "validate"
  /\ \E data \in SeqsUpTo(RowPool, MaxRows), allFiles \in DatasetPool :
       Validate(data, <<>>, ClientsCsv, allFiles)
  /\ UNCHANGED memo

\* The caller has taken the result; the engine keeps nothing of the call.
Return ==
  /\ lastOp = "validate"
  /\ lastOp' = "idle"
  /\ call' = NoCall
  /\ post' = NoCall
  /\ result' = NoResult
  /\ UNCHANGED <<rules, memo>>

(***************************************************************************)
(* Calls in sequence on one engine, with no return to idle between them:   *)
(* one earlier call is remembered with its result.                         *)
(***************************************************************************)
MaxDetRows == 2

DetRowPool == {RowAl, RowBoth}
DetDatasetPool == {NoFiles, Files(<<TasksFile>>)}

SameInputs(c, d) ==
  /\ c.data = d.data
  /\ c.headers = d.headers
  /\ c.fileName = d.fileName
  /\ c.allFiles = d.allFiles
  /\ c.rules = d.rules

DetValidate ==
  /\ \E data \in SeqsUpTo(DetRowPool, MaxDetRows), allFiles \in DetDatasetPool :
       Validate(data, <<>>, ClientsCsv, allFiles)
  /\ \/ /\ lastOp = "validate"
        /\ ~memo.made
        /\ memo' = [made |-> TRUE, call |-> call, result |-> result, between |-> FALSE]
     \/ /\ memo.made
        /\ memo' = [memo EXCEPT !.between = @ \/ ~SameInputs(call', memo.call)]
     \/ /\ ~memo.made
        /\ UNCHANGED memo

(***************************************************************************)
(* One table validated again and again under different names and headers:  *)
(* the first call draws the table and the dataset, every later call passes *)
(* the same rows and dataset, and the first call is remembered.            *)
(***************************************************************************)
MaxTableRows == 4

TableRowPool == {RowAl, RowBoth, RowBlank}
TableNames == {ClientsCsv, TasksCsv}
TableHeaders == {<<>>, <<"ClientID", "Name", "CurrentLoad">>}

TableValidate ==
  /\ \E data \in (IF lastOp = "validate" THEN {call.data}
                   ELSE SeqsUpTo(TableRowPool, MaxTableRows)),
        allFiles \in (IF lastOp = "validate" THEN {call.allFiles} ELSE DetDatasetPool),
        fileName \in TableNames, headers \in TableHeaders :
       Validate(data, headers, fileName, allFiles)
  /\ memo' = IF lastOp = "validate" /\ ~memo.made
             THEN [made |-> TRUE, call |-> call, result |-> result]
             ELSE memo

(***************************************************************************)
(* validateField on one value: the inputs are drawn at the start.          *)
(***************************************************************************)
VARIABLES
  fieldIn,      \* the arguments of a validateField call
  fieldOut,     \* what the call returned, once it has
  fieldTaskIds  \* what getAllTaskIds returned to the call, if it was called

fieldVars == <<fieldIn, fieldOut, fieldTaskIds>>

\* The text of a JSON array of string IDs, as a writer of the file puts it.
RECURSIVE IdListItems(_)
IdListItems(ids) ==
  IF ids = <<>> THEN <<>>
  ELSE <<"\"">> \o Head(ids) \o <<"\"">>
         \o (IF Len(ids) = 1 THEN <<>> ELSE <<",">> \o IdListItems(Tail(ids)))

IdListText(ids) == <<"[">> \o IdListItems(ids) \o <<"]">>

IdPool == {<<"T", "1">>, <<"T", "9">>, <<"T", "7">>}

IdLists ==
  SeqsUpTo(IdPool, 2)
    \cup {<<<<"T", "9">>, <<"T", "1">>, <<"T", "9">>>>,
          <<<<"T", "7">>, <<"T", "9">>, <<"T", "1">>>>}

ReferenceValues == {Str(IdListText(ids)) : ids \in IdLists}

RangeValues == {
  Str(<<"-", "1">>),
  Str(<<"1", "0", "0">>),
  Str(<<"1", "0", "1">>),
  Str(<<"1", "4">>),
  Str(<<"1", "5">>),
  Str(<<"2", "0", "0">>),
  Str(<<"2", "0", "1">>),
  Str(<<"1", "0", "0", ".", "5">>),
  Str(<<"9", "9", ".", "5">>),
  Num(100), Num(101) }

EmailValues == {
  Str(<<"a", "@", "@", "b", ".", "c">>),
  Str(<<"@", "b", ".", "c">>),
  Str(<<"a", "@", "b", ".">>),
  Str(<<"a", " ", "b", "@", "c", ".", "d">>),
  Str(<<"a", "@", "b", ".", "c", ".", "d">>) }

PhoneValues == {
  Str(<<"+", "1", " ", "(", "5", "5", "5", ")", " ", "1", "2", "3", "-", "4", "5", "6", "7">>),
  Str(<<"0", "1", "2", "3">>),
  Str(<<"+">>),
  Str(<<"1", "-", "2", "3", "4", "5", "6", "7", "8", "9", "0", "1", "2", "3", "4", "5", "6", "7">>),
  Str(<<"1", "-", "2", "3", "4", "5", "6", "7", "8", "9", "0", "1", "2", "3", "4", "5", "6">>),
  Str(<<"5", "5", "-", "5">>) }

MalformedValues == {
  Str(<<"\"", "T", "1", "\"">>),
  Str(<<"{", "}">>),
  Str(<<"[", "\"", "T", "1", "\"">>),
  Str(<<"n", "u", "l", "l">>),
  Str(<<"[", " ", "\"", "T", "1", "\"", " ", ",", " ", "\"", "T", "9", "\"", " ", "]">>) }

ValuePool ==
  { Undefined, Null,
    Str(<<>>), Str(<<" ">>), Str(<<"\t", " ", "\n">>), Str(<<" ", "x", " ">>),
    Str(<<"A", "l">>), Str(<<"0">>), Str(<<"1", "5", "0">>), Str(<<"a", "b", "c">>),
    Str(<<"a", "@", "b", ".", "c">>), Str(<<"a", "@", "b">>),
    Str(<<"[", "\"", "T", "1", "\"", "]">>), Str(<<"5">>),
    Num(0), Num(7), Num(150) }
    \cup ReferenceValues \cup RangeValues \cup EmailValues \cup PhoneValues
    \cup MalformedValues

\* Datasets: none, empty, one task table, a task table behind a table of
\* another name and before a second task table, no task table, two task tables.
ClientsTable == File(ClientsCsv, <<"ClientID", "TaskID">>,
                     <<[ClientID |-> Str(<<"C", "1">>), TaskID |-> Str(<<"T", "7">>)]>>)
UpperTasks == File(<<"M", "y", "-", "T", "A", "S", "K", "S", ".", "c", "s", "v">>, <<"TaskID">>,
                   <<TaskRow(<<"T", "1">>), TaskRow(<<>>), [Other |-> Str(<<"x">>)]>>)
TasksNine == File(<<"t", "a", "s", "k", "s", "2", ".", "c", "s", "v">>, <<"TaskID">>, <<TaskRow(<<"T", "9">>)>>)

FieldDatasetPool ==
  { NoFiles, Files(<<>>), Files(<<TasksFile>>), Files(<<ClientsTable>>),
    Files(<<ClientsTable, UpperTasks, TasksNine>>), Files(<<TasksNine, TasksFile>>) }

FieldRulePool == {BuiltinRules[j] : j \in 1..Len(BuiltinRules)} \cup CustomPool

NoField == [made |-> FALSE]
Pending == [k |-> "pending"]
NotCalled == [called |-> FALSE]

FieldInputs ==
  {[made |-> TRUE, value |-> v, rule |-> r, rowIndex |-> i, allFiles |-> fs] :
     v \in ValuePool, r \in FieldRulePool, i \in {0, 2}, fs \in FieldDatasetPool}

\* validateField(value, rule, rowIndex, row, allFiles) returns.
ApplyField ==
  /\ fieldIn.made
  /\ fieldOut = Pending
  /\ fieldOut' = ValidateField(fieldIn.value, fieldIn.rule, fieldIn.rowIndex,
                               [c \in {fieldIn.rule.field} |-> fieldIn.value],
                               fieldIn.allFiles)
  /\ fieldTaskIds' =
       IF /\ fieldIn.rule.type = "reference"
          /\ Truthy(fieldIn.value)
          /\ fieldIn.allFiles.given
       THEN [called |-> TRUE, ids |-> GetAllTaskIds(fieldIn.allFiles)]
       ELSE NotCalled
  /\ UNCHANGED fieldIn

(***************************************************************************)
(* The dashboard's validation score.  Numbers are exact fractions          *)
(* [num, den] with den > 0; the rounding of floating point is left out.    *)
(***************************************************************************)
VARIABLES
  dashFiles,        \* the files prop of ValidationDashboard, in Object.values order
  validationScore   \* the score of the render

dashVars == <<dashFiles, validationScore>>

Rat(n, d) == [num |-> n, den |-> d]
RatOf(n) == Rat(n, 1)
\* a / n for a positive integer n, a * n and a - b
RatDiv(a, n) == Rat(a.num, a.den * n)
RatMul(a, n) == Rat(a.num * n, a.den)
RatSub(a, b) == Rat(a.num * b.den - b.num * a.den, a.den * b.den)
RatLess(a, b) == a.num * b.den < b.num * a.den
\* A maximum that keeps its second argument.
RatMaxSecond(a, b) == b
\* Math.max(a, b)
RatMax(a, b) == IF RatLess(a, b) THEN b ELSE a

\* Object.values(files).flatMap(file => file.validationErrors.map(...))
RECURSIVE AllErrors(_)
AllErrors(fs) ==
  IF fs = <<>> THEN <<>> ELSE Head(fs).validationErrors \o AllErrors(Tail(fs))

\* allErrors.filter(e => e.severity === sev).length
CountSeverity(errs, sev) == Len(SelectSeq(errs, LAMBDA e : e.severity = sev))

\* Object.values(files).reduce((sum, file) => sum + file.data.length, 0)
RECURSIVE TotalRows(_)
TotalRows(fs) == IF fs = <<>> THEN 0 ELSE Len(Head(fs).data) + TotalRows(Tail(fs))

ValidationScore(fs) ==
  LET errorCount == CountSeverity(AllErrors(fs), "error")
      warningCount == CountSeverity(AllErrors(fs), "warning")
      totalRows == TotalRows(fs)
  IN IF totalRows > 0
     THEN RatMax(RatOf(0),
                 RatSub(RatOf(100),
                        RatMul(RatDiv(RatOf(errorCount * 10 + warningCount * 2), totalRows),
                               100)))
     ELSE RatOf(100)

MaxScoreRows == 3
MaxScoreErrors == 3

\* A loaded file of n rows whose errors have the given severities.
DashFile(name, n, sevs) ==
  [name |-> name, data |-> [i \in 1..n |-> RowAl], headers |-> <<>>,
   validationErrors |->
     [k \in 1..Len(sevs) |-> MkError(0, "Name", <<"m">>, sevs[k], "req-client-name")]]

DashFilePool ==
  {DashFile(ClientsCsv, n, sevs) :
     n \in 0..MaxScoreRows, sevs \in SeqsUpTo({"error", "warning"}, MaxScoreErrors)}

DashSecondPool ==
  {DashFile(TasksCsv, 0, <<"warning">>), DashFile(TasksCsv, MaxScoreRows * 10, <<"error">>)}

DashInputs ==
  {<<>>} \cup {<<f>> : f \in DashFilePool}
         \cup {<<f, g>> : f \in DashFilePool, g \in DashSecondPool}

DashIdle == dashFiles = <<>> /\ validationScore = Pending

\* One render of the dashboard.
RenderDashboard ==
  /\ validationScore = Pending
  /\ validationScore' = ValidationScore(dashFiles)
  /\ UNCHANGED dashFiles

(***************************************************************************)
(* The host page (Index.tsx) and its upload component (FileUpload.tsx).    *)
(* files is the state of the last render; setFiles calls wait in queue     *)
(* until the next render applies them in order.  A processFile task calls  *)
(* the handleFileProcessed it closed over, which reads the files of the    *)
(* render that mounted FileUpload (onDrop is memoised with no              *)
(* dependencies).  The effect runs after a render in which the number of   *)
(* files differs from the render before.                                   *)
(***************************************************************************)
VARIABLES
  files,        \* useState files, in Object.entries order
  queue,        \* setFiles updates not yet rendered
  effectDue,    \* a render changed Object.keys(files).length and its effect has not run
  mounted,      \* the files of the render that mounted FileUpload
  uploads,      \* processFile tasks in flight: the parsed file and the files they see
  drops,        \* the number of files dropped so far
  crashed,      \* an effect has thrown: the page is gone
  hostCalls,    \* the validateData calls of the last host step
  processingFiles  \* useState processingFiles of the mounted FileUpload

hostVars == <<files, queue, effectDue, mounted, uploads, drops, crashed, hostCalls,
              processingFiles>>

vars == <<rules, lastOp, call, post, result, memo,
          files, queue, effectDue, mounted, uploads, drops, crashed, hostCalls,
          processingFiles,
          fieldIn, fieldOut, fieldTaskIds, dashFiles, validationScore>>

MaxDrops == 3

ClientRow(id, name, taskIds) ==
  [ClientID |-> Str(id), Name |-> Str(name), TaskIDs |-> Str(taskIds)]

\* The parsed files a user may drop.
TasksOne == File(TasksCsv, <<"TaskID">>, <<TaskRow(<<"T", "1">>)>>)
TasksTwo == File(TasksCsv, <<"TaskID">>, <<TaskRow(<<"T", "2">>)>>)
ClientsOne == File(ClientsCsv, <<"ClientID", "Name", "TaskIDs">>,
                   <<ClientRow(<<"C", "1">>, <<"A", "l">>, <<"[", "\"", "T", "1", "\"", "]">>)>>)

WorkersCsv == <<"w", "o", "r", "k", "e", "r", "s", ".", "c", "s", "v">>
WorkersXlsx == <<"w", "o", "r", "k", "e", "r", "s", ".", "x", "l", "s", "x">>
WorkerRow(id) == [WorkerID |-> Str(id), Name |-> Str(<<"B", "o">>)]
WorkersOne == File(WorkersCsv, <<"WorkerID", "Name">>, <<WorkerRow(<<"W", "1">>)>>)
\* A sheet whose PhoneNumber cell is a number: obj[header] = row[index] || ''
WorkersSheet == File(WorkersXlsx, <<"WorkerID", "Name", "PhoneNumber">>,
                     <<[WorkerID |-> Str(<<"W", "2">>), Name |-> Str(<<"C", "y">>),
                        PhoneNumber |-> Num(5551234)]>>)

DropPool == {TasksOne, TasksTwo, ClientsOne, WorkersOne, WorkersSheet}

HostInit ==
  /\ files = <<>>
  /\ queue = <<>>
  /\ effectDue = FALSE
  /\ mounted = <<>>
  /\ uploads = <<>>
  /\ drops = 0
  /\ crashed = FALSE
  /\ hostCalls = <<>>
  /\ processingFiles = <<>>

\* {...prev, [fileName]: processedData}: an existing key keeps its place.
MergeFile(prev, fd) ==
  IF \E i \in 1..Len(prev) : prev[i].name = fd.name
  THEN [i \in 1..Len(prev) |-> IF prev[i].name = fd.name THEN fd ELSE prev[i]]
  ELSE Append(prev, fd)

\* One queued setFiles: an updater function or a plain value.
ApplyUpdate(prev, u) == IF u.kind = "merge" THEN MergeFile(prev, u.fd) ELSE u.files

RECURSIVE ApplyQueue(_, _)
ApplyQueue(prev, q) ==
  IF q = <<>> THEN prev
  ELSE Bind(ApplyUpdate(prev, Head(q)), LAMBDA nx : ApplyQueue(nx, Tail(q)))

\* The entry processFile adds for its file.
ProcessingFile(name) == [name |-> name, status |-> "processing"]

\* prev.map(f => f.name === file.name ? { ...f, status } : f)
SetStatus(prev, name, status) ==
  [i \in 1..Len(prev) |->
     IF prev[i].name = name THEN [prev[i] EXCEPT !.status = status] ELSE prev[i]]

\* A processFile without its catch block.
ProcessOutcomeSuccess(threw) == "success"
\* The status processFile ends in: onFileProcessed returned, or the catch block.
ProcessOutcome(threw) == IF threw THEN "error" ELSE "success"

HostCall(fileName, data, passed, loaded) ==
  [fileName |-> fileName, data |-> data, passed |-> passed, loaded |-> loaded]

\* onDrop: acceptedFiles.forEach(processFile), one file.
Drop(pool, bound) ==
  /\ ~crashed
  /\ drops < bound
  /\ \E fd \in pool :
       /\ uploads' = Append(uploads, [fd |-> fd, seen |-> mounted])
       /\ processingFiles' = Append(processingFiles, ProcessingFile(fd.name))
  /\ drops' = drops + 1
  /\ hostCalls' = <<>>
  /\ UNCHANGED <<files, queue, effectDue, mounted, crashed>>

OnDrop == Drop(DropPool, MaxDrops)

\* The drops of a short session.
MaxFairDrops == 2

FairDropPool == {TasksOne, ClientsOne}

OnDropFew == Drop(FairDropPool, MaxFairDrops)

\* The dataset handleFileProcessed passes: the files of its closure.
ClosureFiles(seen) == Files(seen)

\* A processFile task reaches onFileProcessed: handleFileProcessed validates
\* and queues the merge; a fault is caught by processFile and nothing is queued.
ProcessFile ==
  /\ ~crashed
  /\ \E k \in 1..Len(uploads) :
       \E up \in {uploads[k]} :
       \E st \in {ValidateData(rules, up.fd.data, up.fd.headers, up.fd.name,
                               ClosureFiles(up.seen))} :
          /\ uploads' = [i \in 1..(Len(uploads) - 1) |->
                           IF i < k THEN uploads[i] ELSE uploads[i + 1]]
          /\ queue' = IF st.threw THEN queue
                      ELSE Append(queue, [kind |-> "merge",
                                          fd |-> [up.fd EXCEPT !.validationErrors = st.errors]])
          /\ hostCalls' = <<HostCall(up.fd.name, up.fd.data, ClosureFiles(up.seen), files)>>
          /\ processingFiles' = SetStatus(processingFiles, up.fd.name, ProcessOutcome(st.threw))
  /\ UNCHANGED <<files, effectDue, mounted, drops, crashed>>

\* A dependency on the files object itself.
DepsChangedAny(before, after) == before # after
\* Whether the effect's dependency differs between two renders.
DepsChanged(before, after) == Len(before) # Len(after)

\* A render: the queued updates are applied in order.  The effect of the
\* render before has run by then.
Render ==
  /\ ~crashed
  /\ queue # <<>>
  /\ ~effectDue
  /\ files' = ApplyQueue(files, queue)
  /\ queue' = <<>>
  /\ effectDue' = DepsChanged(files, files')
  /\ hostCalls' = <<>>
  /\ UNCHANGED <<mounted, uploads, drops, crashed, processingFiles>>

\* revalidateFiles: every file against the files of this render; the new
\* lists replace the stored ones that differ.
Revalidated(fs) ==
  [i \in 1..Len(fs) |->
     LET st == ValidateData(rules, fs[i].data, fs[i].headers, fs[i].name, Files(fs))
     IN [threw |-> st.threw, errors |-> st.errors]]

\* The effect of a render whose file count changed.
RevalidateFiles ==
  /\ ~crashed
  /\ effectDue
  /\ effectDue' = FALSE
  /\ IF Len(files) > 1
     THEN \E re \in {Revalidated(files)} :
          LET updatedFiles == [i \in 1..Len(files) |->
                                 IF re[i].errors # files[i].validationErrors
                                 THEN [files[i] EXCEPT !.validationErrors = re[i].errors]
                                 ELSE files[i]]
              hasChanges == \E i \in 1..Len(files) :
                              re[i].errors # files[i].validationErrors
          IN IF \E i \in 1..Len(files) : re[i].threw
             THEN /\ crashed' = TRUE
                  /\ hostCalls' = <<>>
                  /\ UNCHANGED queue
             ELSE /\ queue' = IF hasChanges
                              THEN Append(queue, [kind |-> "set", files |-> updatedFiles])
                              ELSE queue
                  /\ hostCalls' = [i \in 1..Len(files) |->
                                     HostCall(files[i].name, files[i].data, Files(files), files)]
                  /\ UNCHANGED crashed
     ELSE /\ hostCalls' = <<>>
          /\ UNCHANGED <<queue, crashed>>
  /\ UNCHANGED <<files, mounted, uploads, drops, processingFiles>>

\* The user leaves the upload tab and returns: FileUpload is mounted anew by
\* the current render.
Remount ==
  /\ ~crashed
  /\ mounted # files
  /\ mounted' = files
  /\ processingFiles' = <<>>
  /\ hostCalls' = <<>>
  /\ UNCHANGED <<files, queue, effectDue, uploads, drops, crashed>>

FieldIdle == fieldIn = NoField /\ fieldOut = Pending /\ fieldTaskIds = NotCalled

Init == EngineInit /\ HostInit /\ FieldIdle /\ DashIdle

Next ==
  \/ AddCustomRule /\ UNCHANGED <<hostVars, fieldVars, dashVars>>
  \/ ValidateCall /\ UNCHANGED <<hostVars, fieldVars, dashVars>>
  \/ Return /\ UNCHANGED <<hostVars, fieldVars, dashVars>>

Spec == Init /\ [][Next]_vars

DetNext == DetValidate /\ UNCHANGED <<hostVars, fieldVars, dashVars>>

DetSpec == Init /\ [][DetNext]_vars

TableNext == TableValidate /\ UNCHANGED <<hostVars, fieldVars, dashVars>>

TableSpec == Init /\ [][TableNext]_vars

FieldInit ==
  /\ EngineInit
  /\ HostInit
  /\ fieldIn \in FieldInputs
  /\ fieldOut = Pending
  /\ fieldTaskIds = NotCalled
  /\ DashIdle

FieldNext == ApplyField /\ UNCHANGED <<engineVars, hostVars, dashVars>>

FieldSpec == FieldInit /\ [][FieldNext]_vars

DashInit ==
  /\ EngineInit
  /\ HostInit
  /\ FieldIdle
  /\ dashFiles \in DashInputs
  /\ validationScore = Pending

DashNext == RenderDashboard /\ UNCHANGED <<engineVars, hostVars, fieldVars>>

DashSpec == DashInit /\ [][DashNext]_vars

HostNext ==
  \/ OnDrop /\ UNCHANGED <<engineVars, fieldVars, dashVars>>
  \/ ProcessFile /\ UNCHANGED <<engineVars, fieldVars, dashVars>>
  \/ Render /\ UNCHANGED <<engineVars, fieldVars, dashVars>>
  \/ RevalidateFiles /\ UNCHANGED <<engineVars, fieldVars, dashVars>>
  \/ Remount /\ UNCHANGED <<engineVars, fieldVars, dashVars>>

HostSpec == Init /\ [][HostNext]_vars

\* A pending processFile task completes, a queued update is rendered and a
\* due effect runs; the user need not drop a file or change tabs.
HostFairNext ==
  \/ OnDropFew /\ UNCHANGED <<engineVars, fieldVars, dashVars>>
  \/ ProcessFile /\ UNCHANGED <<engineVars, fieldVars, dashVars>>
  \/ Render /\ UNCHANGED <<engineVars, fieldVars, dashVars>>
  \/ RevalidateFiles /\ UNCHANGED <<engineVars, fieldVars, dashVars>>
  \/ Remount /\ UNCHANGED <<engineVars, fieldVars, dashVars>>

HostProgress == ProcessFile \/ Render \/ RevalidateFiles

HostFairSpec == Init /\ [][HostFairNext]_vars /\ WF_hostVars(HostProgress)

(***************************************************************************)
(* Properties of validateData, on the call that has just returned.         *)
(***************************************************************************)
Returned == lastOp = "validate" /\ ~result.threw

\* The indices of the errors of one pass, and those errors in list order.
PassIndices(pass) == {k \in 1..Len(result.origins) : result.origins[k].pass = pass}

ErrorsOfPass(pass) ==
  LET idx == PassIndices(pass)
  IN [m \in 1..Cardinality(idx) |->
        result.errors[CHOOSE k \in idx : Cardinality({h \in idx : h <= k}) = m]]

DupRules(rls) == {j \in 1..Len(rls) : rls[j].type = "duplicate"}

NonEmpty(v) == v \notin {Undefined, Null, Str(<<>>)}

\* The 1-based rows of a table that hold value v in field f.
RowsWith(data, f, v) == {i \in 1..Len(data) : GetField(data[i], f) = v}

\* The 1-based rows whose value of f is non-empty and occurs in two or more rows.
Affected(data, f) ==
  {i \in 1..Len(data) :
     /\ NonEmpty(GetField(data[i], f))
     /\ Cardinality(RowsWith(data, f, GetField(data[i], f))) >= 2}

\* Row numbers in ascending order, joined by ", ".
RECURSIVE RowList(_)
RowList(R) ==
  IF R = {} THEN <<>>
  ELSE LET m == CHOOSE x \in R : \A y \in R : x <= y
       IN NatChars(m) \o (IF R = {m} THEN <<>> ELSE <<",", " ">> \o RowList(R \ {m}))

ExpectedDupMessage(v, R) == DupPrefix \o StringOf(v) \o DupMiddle \o RowList(R)

\* C1: validateData never throws: whatever the table holds and whatever
\* dataset is supplied, the call returns an error list.
C1_NeverThrows == lastOp = "validate" => ~result.threw

\* C2: the per-row errors are in row-major order: of two per-row errors the
\* earlier one has the smaller row, or the same row and a rule earlier in the
\* registry; so each pair of a row and a rule gives at most one error.  Each
\* error carries the row it was produced for and the id of its rule.
C2_RowMajorOrder ==
  Returned =>
    LET o == result.origins
        e == result.errors
        PerRow == PassIndices("row")
    IN /\ \A k \in PerRow :
            /\ e[k].row = o[k].row
            /\ o[k].rule \in 1..Len(call.rules)
            /\ e[k].ruleId = call.rules[o[k].rule].id
       /\ \A k1, k2 \in PerRow :
            k1 < k2 => \/ o[k1].row < o[k2].row
                       \/ o[k1].row = o[k2].row /\ o[k1].rule < o[k2].rule

\* Two errors of one row, then an error of a later row.
C2_Witness ==
  /\ Returned
  /\ \E k1, k2, k3 \in PassIndices("row") :
       /\ k1 < k2 /\ k2 < k3
       /\ result.origins[k1].row = result.origins[k2].row
       /\ result.origins[k2].row < result.origins[k3].row

\* C3: with one duplicate rule in the registry, every non-empty value of its
\* field that occurs in two or more rows gives exactly one duplicate error per
\* affected row, in ascending row order within the value, each message listing
\* all the rows of the value as 1-based numbers joined by ", "; a value of a
\* single row, and an empty value, give none.
C3_DuplicateErrors ==
  Returned /\ Cardinality(DupRules(call.rules)) = 1 =>
    LET f == call.rules[CHOOSE j \in DupRules(call.rules) : TRUE].field
        data == call.data
        D == ErrorsOfPass("dup")
    IN /\ Len(D) = Cardinality(Affected(data, f))
       /\ \A k \in 1..Len(D) : D[k].row + 1 \in Affected(data, f)
       /\ \A i \in Affected(data, f) :
            \E k \in 1..Len(D) :
               /\ D[k].row = i - 1
               /\ D[k].message =
                    ExpectedDupMessage(GetField(data[i], f),
                                       RowsWith(data, f, GetField(data[i], f)))
       /\ \A k1, k2 \in 1..Len(D) :
            k1 < k2 /\ D[k1].message = D[k2].message => D[k1].row < D[k2].row

\* A value in the first and the third row, another value alone between them.
C3_Witness ==
  /\ Returned
  /\ Cardinality(DupRules(call.rules)) = 1
  /\ Len(call.data) = 3
  /\ NonEmpty(GetField(call.data[2], "ClientID"))
  /\ GetField(call.data[1], "ClientID") = GetField(call.data[3], "ClientID")
  /\ GetField(call.data[1], "ClientID") # GetField(call.data[2], "ClientID")
  /\ Len(ErrorsOfPass("dup")) = 2

\* C4: with several duplicate rules in the registry, each rule tracks its own
\* field: a row gets a duplicate error of a rule exactly when its value of
\* that rule's field is non-empty and shared with another row, the error
\* carries that rule's id, and the groups come in registry order.
C4_IndependentDuplicateRules ==
  Returned /\ Cardinality(DupRules(call.rules)) >= 2 =>
    LET rls == call.rules
        data == call.data
        D == ErrorsOfPass("dup")
        Ids == {rls[j].id : j \in DupRules(rls)}
        FirstRule(id) == CHOOSE j \in DupRules(rls) :
                           rls[j].id = id /\ \A h \in DupRules(rls) : rls[h].id = id => j <= h
    IN /\ \A k \in 1..Len(D) : D[k].ruleId \in Ids
       /\ \A id \in Ids, i \in 1..Len(data) :
            Cardinality({k \in 1..Len(D) : D[k].ruleId = id /\ D[k].row = i - 1})
              = Cardinality({j \in DupRules(rls) :
                               rls[j].id = id /\ i \in Affected(data, rls[j].field)})
       /\ \A k1, k2 \in 1..Len(D) :
            k1 < k2 /\ D[k1].ruleId \in Ids /\ D[k2].ruleId \in Ids
              => FirstRule(D[k1].ruleId) <= FirstRule(D[k2].ruleId)

\* C5: no duplicate error precedes a per-row error in the returned list.
C5_DuplicatesLast ==
  Returned =>
    \A k1, k2 \in 1..Len(result.origins) :
      result.origins[k1].pass = "dup" /\ result.origins[k2].pass = "row" => k2 < k1

\* A duplicate error of an earlier row stands after a per-row error of a later row.
C5_Witness ==
  /\ Returned
  /\ \E k1, k2 \in 1..Len(result.origins) :
       /\ k1 < k2
       /\ result.origins[k1].pass = "row"
       /\ result.origins[k2].pass = "dup"
       /\ result.errors[k2].row < result.errors[k1].row

\* C6: a validateData call changes neither the rows of the table, nor the
\* registry, nor any table of the dataset.
C6_NoSideEffects ==
  lastOp = "validate" =>
    /\ post.data = call.data
    /\ post.allFiles = call.allFiles
    /\ rules = call.rules

\* A call on rows with cells to trim, a dataset with a table, an extended
\* registry, that reported errors.
C6_Witness ==
  /\ Returned
  /\ Len(rules) > Len(BuiltinRules)
  /\ call.allFiles.given /\ call.allFiles.files # <<>>
  /\ \E i \in 1..Len(call.data) : GetField(call.data[i], "Name") = Str(<<" ">>)
  /\ result.errors # <<>>

HostQuiescent == uploads = <<>> /\ queue = <<>> /\ ~effectDue /\ ~crashed

\* C8: when no upload and no revalidation is pending, the stored errors of
\* every loaded file are those validateData gives for its rows against the
\* files loaded now.
C8_StoredErrorsCurrent ==
  HostQuiescent =>
    \A i \in 1..Len(files) :
      LET st == ValidateData(rules, files[i].data, files[i].headers, files[i].name,
                             Files(files))
      IN ~st.threw /\ files[i].validationErrors = st.errors

\* C9: every validateData call of the host is given a dataset that holds the
\* table being validated and every table loaded at the time, as they are.
C9_FullSnapshot ==
  \A c \in 1..Len(hostCalls) :
    LET passed == hostCalls[c].passed
        Holds(name, data) ==
          /\ passed.given
          /\ \E g \in 1..Len(passed.files) :
               passed.files[g].name = name /\ passed.files[g].data = data
    IN /\ Holds(hostCalls[c].fileName, hostCalls[c].data)
       /\ \A i \in 1..Len(hostCalls[c].loaded) :
            \/ hostCalls[c].loaded[i].name = hostCalls[c].fileName
            \/ Holds(hostCalls[c].loaded[i].name, hostCalls[c].loaded[i].data)

FileNames(fs) == {fs[i].name : i \in 1..Len(fs)}

\* C28: once every upload has completed and every update is applied, every
\* file whose processing entry says success is in the files map.
C28_NoFileLost ==
  HostQuiescent =>
    \A k \in 1..Len(processingFiles) :
      processingFiles[k].status = "success" => processingFiles[k].name \in FileNames(files)

\* C29: the revalidation effect becomes due only by a render that changes
\* the number of files; the files it sets are as many as the rendered ones,
\* so rendering its update alone does not make it due again; and once due,
\* the page comes to rest with the effect run and no update pending.
C29_RevalidationTerminates ==
  /\ [][(effectDue' /\ ~effectDue) => Len(files') # Len(files)]_vars
  /\ [][(queue # <<>> /\ files' # files
           /\ \A u \in 1..Len(queue) : queue[u].kind = "set")
         => (Len(files') = Len(files) /\ ~effectDue')]_vars
  /\ [][(Len(queue') > Len(queue) /\ queue'[Len(queue')].kind = "set")
         => Len(queue'[Len(queue')].files) = Len(files)]_vars
  /\ (effectDue ~> (~effectDue /\ queue = <<>>))

\* The effect has run and its own update is the only one pending.
C29_Witness ==
  /\ ~effectDue
  /\ uploads = <<>>
  /\ Len(queue) = 1
  /\ queue[1].kind = "set"
  /\ queue[1].files # files
  /\ Len(queue[1].files) = Len(files)

\* C30: when the validation of an uploaded file faults in onFileProcessed,
\* the step leaves the files map and the pending updates as they were, and
\* the processing entries of that file's name end in status "error".
C30_FaultKeepsFiles ==
  [][(Len(uploads') < Len(uploads)
      /\ ValidateData(rules, hostCalls'[1].data, <<>>, hostCalls'[1].fileName,
                      hostCalls'[1].passed).threw)
     => /\ files' = files
        /\ queue' = queue
        /\ \A k \in 1..Len(processingFiles) :
             processingFiles[k].name = hostCalls'[1].fileName =>
               processingFiles'[k].status = "error"
        /\ \A k \in 1..Len(processingFiles) :
             processingFiles'[k].status = "success" => processingFiles[k].status = "success"]_vars

\* The upload of the sheet has failed beside a loaded file: its entry says
\* error and it is not in the files map.
C30_Witness ==
  /\ HostQuiescent
  /\ files # <<>>
  /\ WorkersXlsx \notin FileNames(files)
  /\ \E k \in 1..Len(processingFiles) :
       processingFiles[k] = [name |-> WorkersXlsx, status |-> "error"]
  /\ \E k \in 1..Len(processingFiles) : processingFiles[k].status = "success"

(***************************************************************************)
(* Properties of validateField.                                            *)
(***************************************************************************)
Missing(v) == v \in {Undefined, Null} \/ (v.t = "string" /\ Trim(v.s) = <<>>)

\* C10: a required rule gives an error exactly when the value is absent,
\* null, or a string that is empty once trimmed; any other value, the number
\* 0 among them, gives none.  The error is for the rule's field and id.
C10_RequiredIffMissing ==
  fieldOut # Pending /\ fieldIn.rule.type = "required" =>
    /\ fieldOut.k = "error" <=> Missing(fieldIn.value)
    /\ fieldOut.k = "error" =>
         /\ fieldOut.err.column = fieldIn.rule.field
         /\ fieldOut.err.ruleId = fieldIn.rule.id
         /\ fieldOut.err.row = fieldIn.rowIndex

\* Whether a table name contains "task", in any mix of cases.
TaskLetters == <<{"t", "T"}, {"a", "A"}, {"s", "S"}, {"k", "K"}>>

NameHasTask(name) ==
  \E i \in 1..(Len(name) - 3) : \A k \in 1..4 : name[i + k - 1] \in TaskLetters[k]

TaskTables(fs) == {i \in 1..Len(fs) : NameHasTask(fs[i].name)}

\* The valid references of a dataset: the non-empty TaskID values of its
\* first table whose name contains "task".
ValidSet(allFiles) ==
  LET fs == allFiles.files
  IN IF TaskTables(fs) = {} THEN {}
     ELSE LET first == CHOOSE i \in TaskTables(fs) : \A k \in TaskTables(fs) : i <= k
          IN {v \in {GetField(fs[first].data[r], "TaskID") : r \in 1..Len(fs[first].data)} :
                NonEmpty(v)}

\* IDs joined by ", ".
RECURSIVE JoinIds(_)
JoinIds(ids) ==
  IF ids = <<>> THEN <<>>
  ELSE Head(ids) \o (IF Len(ids) = 1 THEN <<>> ELSE <<",", " ">> \o JoinIds(Tail(ids)))

ReferenceCall ==
  fieldOut # Pending /\ fieldIn.rule.type = "reference" /\ fieldIn.allFiles.given

\* C11: a reference rule on the text of a list of IDs gives no error when
\* every ID is a valid reference, and otherwise one error whose message is
\* the rule's message, ": ", and the invalid IDs joined by ", ", in their
\* order in the list, repeated as often as they occur; valid IDs are not listed.
C11_ReferenceMessage ==
  ReferenceCall =>
    \A ids \in IdLists :
      fieldIn.value = Str(IdListText(ids)) =>
        LET invalid == SelectSeq(ids, LAMBDA id : Str(id) \notin ValidSet(fieldIn.allFiles))
        IN IF invalid = <<>> THEN fieldOut = NoError
           ELSE /\ fieldOut.k = "error"
                /\ fieldOut.err.message = <<fieldIn.rule.message, ":", " ">> \o JoinIds(invalid)
                /\ fieldOut.err.row = fieldIn.rowIndex
                /\ fieldOut.err.ruleId = fieldIn.rule.id

\* The list T9, T1, T9 against the valid references T1 and T2: "T9, T9".
C11_Witness ==
  /\ ReferenceCall
  /\ fieldIn.value = Str(IdListText(<<<<"T", "9">>, <<"T", "1">>, <<"T", "9">>>>))
  /\ fieldIn.allFiles = Files(<<TasksFile>>)
  /\ fieldOut.k = "error"
  /\ fieldOut.err.message =
       <<fieldIn.rule.message, ":", " ", "T", "9", ",", " ", "T", "9">>

\* C12: the IDs a reference rule accepts are exactly the non-empty TaskID
\* values of the first table whose name contains "task" in any case: later
\* task tables and tables of other names give none.
C12_ValidReferenceSet ==
  fieldOut # Pending /\ fieldTaskIds.called =>
    {fieldTaskIds.ids[i] : i \in 1..Len(fieldTaskIds.ids)} = ValidSet(fieldIn.allFiles)

\* A table of another name with a TaskID column, then a task table with an
\* upper-case name and an empty TaskID, then a second task table.
C12_Witness ==
  /\ fieldOut # Pending
  /\ fieldTaskIds.called
  /\ fieldIn.allFiles = Files(<<ClientsTable, UpperTasks, TasksNine>>)
  /\ fieldTaskIds.ids = <<Str(<<"T", "1">>)>>

\* C13: against a dataset without a table whose name contains "task", the
\* text of a non-empty list of IDs gives a reference error that lists all of
\* the IDs.
C13_NoTaskTable ==
  ReferenceCall /\ TaskTables(fieldIn.allFiles.files) = {} =>
    \A ids \in IdLists :
      ids # <<>> /\ fieldIn.value = Str(IdListText(ids)) =>
        /\ fieldOut.k = "error"
        /\ fieldOut.err.message = <<fieldIn.rule.message, ":", " ">> \o JoinIds(ids)

\* The only table is clients.csv, whose TaskID column holds T7: T7 is listed.
C13_Witness ==
  /\ ReferenceCall
  /\ fieldIn.allFiles = Files(<<ClientsTable>>)
  /\ fieldIn.value = Str(IdListText(<<<<"T", "7">>, <<"T", "9">>, <<"T", "1">>>>))
  /\ fieldOut.k = "error"

\* C27: a reference rule called without a dataset gives no error, whatever
\* the value; called with a dataset that holds no table it gives an error for
\* the text of every non-empty list of IDs.
C27_NoDatasetSkips ==
  (fieldOut # Pending /\ fieldIn.rule.type = "reference") =>
    /\ fieldIn.allFiles = [given |-> FALSE, files |-> <<>>] => fieldOut = [k |-> "none"]
    /\ fieldIn.allFiles = [given |-> TRUE, files |-> <<>>] =>
         \A ids \in IdLists :
           ids # <<>> /\ fieldIn.value = Str(IdListText(ids)) =>
             /\ fieldOut.k = "error"
             /\ fieldOut.err.ruleId = fieldIn.rule.id
             /\ fieldOut.err.row = fieldIn.rowIndex

\* Without a dataset a list of two IDs passes the reference rule.
C27_Witness ==
  /\ fieldOut = NoError
  /\ fieldIn.rule.type = "reference"
  /\ ~fieldIn.allFiles.given
  /\ fieldIn.value = Str(IdListText(<<<<"T", "1">>, <<"T", "9">>>>))

\* With an empty dataset the same list is reported.
C27_WitnessEmpty ==
  /\ fieldOut # Pending
  /\ fieldIn.rule.type = "reference"
  /\ fieldIn.allFiles.given
  /\ fieldIn.allFiles.files = <<>>
  /\ fieldIn.value = Str(IdListText(<<<<"T", "1">>, <<"T", "9">>>>))
  /\ fieldOut.k = "error"

\* A text that cannot be a JSON array literal: once trimmed it is empty, or
\* does not start with "[", or does not end with "]".
NotArrayLiteral(v) ==
  /\ v.t = "string"
  /\ LET s == Trim(v.s)
     IN s = <<>> \/ s[1] # "[" \/ s[Len(s)] # "]"

\* C14: a reference value that is not a JSON array literal counts as an empty
\* list: the rule returns no error and does not fault.
C14_MalformedIsEmptyList ==
  fieldOut # Pending /\ fieldIn.rule.type = "reference" /\ NotArrayLiteral(fieldIn.value)
    => fieldOut = NoError

\* Values that spell a number, each with twice the number it spells.
NumberCases ==
  { [v |-> Str(<<"-", "1">>), twice |-> 0 - 2],
    [v |-> Str(<<"0">>), twice |-> 0],
    [v |-> Str(<<"5">>), twice |-> 10],
    [v |-> Str(<<"1", "4">>), twice |-> 28],
    [v |-> Str(<<"1", "5">>), twice |-> 30],
    [v |-> Str(<<"9", "9", ".", "5">>), twice |-> 199],
    [v |-> Str(<<"1", "0", "0">>), twice |-> 200],
    [v |-> Str(<<"1", "0", "0", ".", "5">>), twice |-> 201],
    [v |-> Str(<<"1", "0", "1">>), twice |-> 202],
    [v |-> Str(<<"1", "5", "0">>), twice |-> 300],
    [v |-> Str(<<"2", "0", "0">>), twice |-> 400],
    [v |-> Str(<<"2", "0", "1">>), twice |-> 402],
    [v |-> Num(0), twice |-> 0],
    [v |-> Num(7), twice |-> 14],
    [v |-> Num(100), twice |-> 200],
    [v |-> Num(101), twice |-> 202],
    [v |-> Num(150), twice |-> 300] }

\* Values that spell no number.
NotNumbers == {Undefined, Null, Str(<<>>), Str(<<" ">>), Str(<<"a", "b", "c">>),
               Str(<<"A", "l">>), Str(<<"a", "@", "b">>)}

\* C15: a range rule gives an error exactly for a number strictly below min
\* or strictly above max: min and max themselves pass, a value that spells no
\* number gives no error, and the message is the rule's message followed by
\* " (min-max)".
C15_RangeBounds ==
  fieldOut # Pending /\ fieldIn.rule.type = "range" /\ fieldIn.rule.config.kind = "range" =>
    LET min == fieldIn.rule.config.min
        max == fieldIn.rule.config.max
    IN /\ \A c \in NumberCases :
            fieldIn.value = c.v =>
              IF c.twice < 2 * min \/ c.twice > 2 * max
              THEN /\ fieldOut.k = "error"
                   /\ fieldOut.err.message =
                        <<fieldIn.rule.message, " ", "(">> \o NatChars(min) \o <<"-">>
                          \o NatChars(max) \o <<")">>
                   /\ fieldOut.err.severity = fieldIn.rule.severity
              ELSE fieldOut = NoError
       /\ fieldIn.value \in NotNumbers => fieldOut = NoError

\* CurrentLoad "150" under the 0-100 rule: a warning ending in "(0-100)".
C15_Witness ==
  /\ fieldOut # Pending
  /\ fieldIn.rule.id = "worker-load-range"
  /\ fieldIn.value = Str(<<"1", "5", "0">>)
  /\ fieldOut.k = "error"
  /\ fieldOut.err.severity = "warning"
  /\ fieldOut.err.message =
       <<fieldIn.rule.message, " ", "(", "0", "-", "1", "0", "0", ")">>

WhiteSpace == {" ", "\t", "\n", "\r"}

\* A run of one or more characters, none of them white space or "@".
Clean(x) == x # <<>> /\ \A k \in 1..Len(x) : x[k] \notin WhiteSpace \cup {"@"}

\* <chars>@<chars>.<chars>
EmailShape(s) ==
  \E i, j \in 1..Len(s) :
    /\ i < j
    /\ s[i] = "@"
    /\ s[j] = "."
    /\ Clean(SubSeq(s, 1, i - 1))
    /\ Clean(SubSeq(s, i + 1, j - 1))
    /\ Clean(SubSeq(s, j + 1, Len(s)))

Textual(v) == v.t \in {"undefined", "null", "string"}

PhoneShape(s) ==
  LET r == IF s # <<>> /\ s[1] = "+" THEN SubSeq(s, 2, Len(s)) ELSE s
  IN /\ Len(r) >= 1
     /\ Len(r) <= 16
     /\ \A k \in 1..Len(r) : r[k] \in {"0", "1", "2", "3", "4", "5", "6", "7", "8", "9"}
     /\ r[1] # "0"

WithoutPunctuation(s) == SelectSeq(s, LAMBDA c : c \notin WhiteSpace \cup {"-", "(", ")"})

\* C17: a phone rule gives an error exactly when the value is present and,
\* with spaces, hyphens and parentheses removed, is not an optional "+" and 1
\* to 16 digits with a first digit other than 0; this for a present value of
\* any type, without a fault.
C17_PhoneShape ==
  fieldOut # Pending /\ fieldIn.rule.type = "phone" =>
    IF NonEmpty(fieldIn.value) /\ ~PhoneShape(WithoutPunctuation(StringOf(fieldIn.value)))
    THEN fieldOut.k = "error"
    ELSE fieldOut = NoError

\* C18: under a rule of type duplicate or custom the per-row validator
\* returns no error and does not fault, whatever the value.
C18_NoPerRowError ==
  fieldOut # Pending /\ fieldIn.rule.type \in {"duplicate", "custom"} => fieldOut = NoError

\* A custom rule on an empty value.
C18_Witness ==
  /\ fieldOut = NoError
  /\ fieldIn.made
  /\ fieldIn.rule.type = "custom"
  /\ fieldIn.value = Str(<<>>)

(***************************************************************************)
(* Properties of the registry.                                             *)
(***************************************************************************)
\* The per-row errors of rule j on the 0-based row i of the returned call.
ErrorsAt(i, j) ==
  {k \in PassIndices("row") : result.origins[k].row = i /\ result.origins[k].rule = j}

\* C19: addCustomRule puts the given rule at the end of the registry and
\* leaves the rules before it as they were, whether or not its id is already
\* there; every required rule of the registry, one that shares its id with
\* another included, is applied to every row on its own.
C19_AppendsUnchecked ==
  /\ [][lastOp' = "add" => rules' = Append(rules, call'.rule)]_vars
  /\ [](Returned =>
          \A i \in 1..Len(call.data), j \in 1..Len(call.rules) :
            call.rules[j].type = "required" =>
              Cardinality(ErrorsAt(i - 1, j)) =
                (IF Missing(GetField(call.data[i], call.rules[j].field)) THEN 1 ELSE 0))

\* Two rules with one id both report the same row.
C19_Witness ==
  /\ Returned
  /\ \E k1, k2 \in PassIndices("row") :
       /\ k1 # k2
       /\ result.errors[k1].row = result.errors[k2].row
       /\ result.errors[k1].ruleId = result.errors[k2].ruleId
       /\ result.origins[k1].rule <= Len(BuiltinRules)
       /\ result.origins[k2].rule > Len(BuiltinRules)

\* C20: no two rules of the registry have the same id.
C20_UniqueIds ==
  \A j1, j2 \in 1..Len(rules) : rules[j1].id = rules[j2].id => j1 = j2


\* C21: the registry only grows at its end: at every moment getRules gives
\* the eight built-in rules, unchanged and in their order, then the added
\* rules in the order they were added; a step that adds a rule appends it and
\* any other step leaves the registry as it was.
C21_AppendOnly ==
  /\ [](/\ Len(GetRules(rules)) >= Len(BuiltinRules)
        /\ SubSeq(GetRules(rules), 1, Len(BuiltinRules)) = BuiltinRules)
  /\ [][/\ Len(GetRules(rules')) >= Len(GetRules(rules))
        /\ SubSeq(GetRules(rules'), 1, Len(rules)) = GetRules(rules)
        /\ Len(rules') = Len(rules) + (IF lastOp' = "add" THEN 1 ELSE 0)
        /\ lastOp' = "add" => rules'[Len(rules')] = call'.rule]_vars

\* A call has returned on a registry that holds two different added rules.
C21_Witness ==
  /\ Returned
  /\ Len(GetRules(rules)) = Len(BuiltinRules) + 2
  /\ rules[Len(BuiltinRules) + 1] # rules[Len(BuiltinRules) + 2]
  /\ result.errors # <<>>


\* The listed built-in ruleset: id, type, field, severity, config.
Listed(id, type, field, severity, config) ==
  [id |-> id, type |-> type, field |-> field, severity |-> severity, config |-> config]

ListedRules == <<
  Listed("req-client-name", "required", "Name", "error", [kind |-> "none"]),
  Listed("email-format", "email", "Email", "error", [kind |-> "none"]),
  Listed("phone-format", "phone", "PhoneNumber", "warning", [kind |-> "none"]),
  Listed("duplicate-ids", "duplicate", "ClientID", "error", [kind |-> "none"]),
  Listed("worker-load-range", "range", "CurrentLoad", "warning",
         [kind |-> "range", min |-> 0, max |-> 100]),
  Listed("task-reference", "reference", "TaskIDs", "error", [kind |-> "none"]),
  Listed("hourly-rate-range", "range", "HourlyRate", "warning",
         [kind |-> "range", min |-> 15, max |-> 200]),
  Listed("skill-format", "regex", "Skills", "error",
         [kind |-> "pattern", pattern |-> "bracketed"]) >>

\* C22: an engine to which no rule was added holds exactly the eight listed
\* rules, in the listed order, each with the listed id, type, field, severity
\* and config.  The page never adds a rule, so its engine is such an engine
\* in every state.
C22_BuiltinRuleset ==
  /\ Len(GetRules(rules)) = 8
  /\ \A j \in 1..8 :
       Listed(rules[j].id, rules[j].type, rules[j].field, rules[j].severity,
              rules[j].config) = ListedRules[j]

\* The page has validated a table with the engine's rules.
C22_Witness ==
  /\ hostCalls # <<>>
  /\ Len(GetRules(rules)) = 8
  /\ files # <<>>


\* C26: every returned error names a row of the table and carries the id,
\* field and severity of one rule of the registry, the per-row errors and the
\* duplicate errors alike, whatever rules were added.
C26_Attributable ==
  Returned =>
    \A k \in 1..Len(result.errors) :
      /\ result.errors[k].row \in 0..(Len(call.data) - 1)
      /\ \E j \in 1..Len(call.rules) :
           /\ result.errors[k].ruleId = call.rules[j].id
           /\ result.errors[k].column = call.rules[j].field
           /\ result.errors[k].severity = call.rules[j].severity

\* Duplicate errors for a WorkerID that two rows share, under an added
\* duplicate rule on WorkerID, beside per-row errors.  They carry the id,
\* field and severity of the built-in duplicate rule, which the registry
\* always holds.
C26_Witness ==
  /\ Returned
  /\ \E j \in 1..Len(call.rules) : call.rules[j] = DupWorker
  /\ \E k \in PassIndices("dup"), R \in SUBSET (1..Len(call.data)) :
       result.errors[k].message = ExpectedDupMessage(Str(<<"W", "1">>), R)
  /\ PassIndices("row") # {}

(***************************************************************************)
(* Properties of validateData across tables.                               *)
(***************************************************************************)
\* C23: rules are not scoped to a table: two calls that pass the same rows,
\* dataset and registry, whatever file name and headers each passes, return
\* the same error list.
C23_NotScoped ==
  (/\ lastOp = "validate"
   /\ memo.made
   /\ call.data = memo.call.data
   /\ call.allFiles = memo.call.allFiles
   /\ call.rules = memo.call.rules)
  => /\ result.threw = memo.result.threw
     /\ result.errors = memo.result.errors

\* Two calls on one table that differ in file name and in headers, with errors.
C23_Witness ==
  /\ Returned
  /\ memo.made
  /\ call.data = memo.call.data
  /\ call.fileName # memo.call.fileName
  /\ call.headers # memo.call.headers
  /\ \E k \in 1..Len(result.errors) : result.errors[k].column = "Name"
  /\ \E k \in 1..Len(result.errors) : result.errors[k].column = "CurrentLoad"

\* The first 1-based row of the called table that holds v in field f.
FirstRow(f, v) ==
  CHOOSE i \in RowsWith(call.data, f, v) : \A h \in RowsWith(call.data, f, v) : i <= h

\* C24: with one duplicate rule in the registry, the duplicate errors are
\* grouped by value, the groups in the order of the first row that holds
\* each value and every group in ascending row order: of two duplicate
\* errors, the earlier one is about a value that first occurs earlier, or
\* about the same value and an earlier row.
C24_DuplicateOrder ==
  (Returned /\ Cardinality(DupRules(call.rules)) = 1) =>
    LET f == call.rules[CHOOSE j \in DupRules(call.rules) : TRUE].field
        ValueOf(k) == GetField(call.data[result.errors[k].row + 1], f)
    IN \A k1, k2 \in PassIndices("dup") :
         k1 < k2 =>
           \/ FirstRow(f, ValueOf(k1)) < FirstRow(f, ValueOf(k2))
           \/ /\ ValueOf(k1) = ValueOf(k2)
              /\ result.errors[k1].row < result.errors[k2].row

\* Two groups, the first of which holds a later row than the second, and
\* whose values are not in the order of their text.
C24_Witness ==
  /\ Returned
  /\ Cardinality(DupRules(call.rules)) = 1
  /\ \E k1, k2 \in PassIndices("dup") :
       /\ k1 < k2
       /\ result.errors[k1].row > result.errors[k2].row
       /\ GetField(call.data[result.errors[k1].row + 1], "ClientID") = Str(<<"C", "2">>)
       /\ GetField(call.data[result.errors[k2].row + 1], "ClientID") = Str(<<"C", "1">>)


(***************************************************************************)
(* Properties of the dashboard.                                            *)
(***************************************************************************)
Scored == validationScore # Pending

\* The counts of the rendered files, taken file by file.
ErrorsOf(sev) ==
  Cardinality({<<i, k>> \in (1..Len(dashFiles)) \X (1..MaxScoreErrors + 1) :
                 /\ k <= Len(dashFiles[i].validationErrors)
                 /\ dashFiles[i].validationErrors[k].severity = sev})
RowsOf ==
  Cardinality({<<i, k>> \in (1..Len(dashFiles)) \X (1..(MaxScoreRows + 1) * 10) :
                 k <= Len(dashFiles[i].data)})

\* C25: with rows present the score is max(0, 100 - (errorCount * 10 +
\* warningCount * 2) / totalRows * 100), that is, score * totalRows is the
\* larger of 0 and 100 * totalRows - 100 * (10 * errorCount + 2 *
\* warningCount); with no row it is 100; it lies in 0..100 always, and with
\* rows present it is 100 only when there is neither an error nor a warning.
C25_ScoreFormula ==
  Scored =>
    LET penalty == ErrorsOf("error") * 10 + ErrorsOf("warning") * 2
        rest == 100 * RowsOf - 100 * penalty
        s == validationScore
    IN /\ s.den > 0
       /\ RowsOf > 0 => s.num * RowsOf = s.den * (IF rest > 0 THEN rest ELSE 0)
       /\ RowsOf = 0 => s.num = 100 * s.den
       /\ 0 <= s.num /\ s.num <= 100 * s.den
       /\ (RowsOf > 0 /\ s.num = 100 * s.den) =>
            (ErrorsOf("error") = 0 /\ ErrorsOf("warning") = 0)

\* A score strictly between 0 and 100 that is no whole number, from two files.
C25_Witness ==
  /\ Scored
  /\ Len(dashFiles) = 2
  /\ ErrorsOf("error") > 0
  /\ ErrorsOf("warning") > 0
  /\ validationScore.num > 0
  /\ validationScore.num < 100 * validationScore.den
  /\ validationScore.num % validationScore.den # 0

\* A score floored at 0.
C25_WitnessFloor ==
  /\ Scored
  /\ RowsOf > 0
  /\ 10 * ErrorsOf("error") + 2 * ErrorsOf("warning") > RowsOf
  /\ validationScore.num = 0

====
